---- MODULE Spec2Model ----
(***************************************************************************)
(* HF Coder GUI (src/main.py): the streaming-generation pipeline.          *)
(*                                                                         *)
(* Two execution contexts are modelled.  The presentation context is the   *)
(* Tk main loop: it runs one callback at a time (generate_code,            *)
(* stop_generation, clear_all, the key dialog's activate, and the 50 ms    *)
(* process_queue tick).  The background context is the daemon thread       *)
(* started by generate_code; each of its steps is one line group of        *)
(* worker() and interleaves freely with the presentation context, also     *)
(* in the middle of a process_queue tick.                                  *)
(***************************************************************************)
EXTENDS Integers, Sequences, FiniteSets, TLC

\* ------------------------------------------------------------------ bounds
\* Chunks the remote stream delivers at most in one session.
MaxChunks == 2
\* Thread slots: generation threads that can exist at the same time.
MaxWorkers == 2

Workers == 1..MaxWorkers

\* ------------------------------------------------------------------ texts
\* Text is a sequence of one-character strings.
NL == "\n"

\* Incremental texts a chunk's delta can carry (non-empty ones).
ChunkTexts == {<<"a">>, <<"1">>}

\* chunk.choices[0].delta: the content attribute is absent/None, "" or a text.
NoContent == [has |-> FALSE, content |-> <<>>]
Deltas == {NoContent} \cup {[has |-> TRUE, content |-> t] : t \in ChunkTexts \cup {<<>>}}

\* completion.choices[0].message["content"] of a non-streaming call.
Completions == {<<>>, <<"a", "b">>}

\* The content of a completion message that carries none: Python's None, kept as a
\* payload no text is equal to (a text is a sequence of one-character strings).
None == <<"None">>

\* str(exc) for the two except clauses of worker().
Exceptions == {[kind |-> "HfHubHTTPError", msg |-> <<"4", "0", "1">>],
               [kind |-> "Exception", msg |-> <<"x">>]}

NoException == [kind |-> "none", msg |-> <<>>]

\* model_id of two entries of MODELS (lines 178-179); the first is the default.
ModelIds == {"Qwen/Qwen2.5-Coder-32B-Instruct", "Qwen/Qwen2.5-Coder-14B-Instruct"}
DefaultModelId == "Qwen/Qwen2.5-Coder-32B-Instruct"
NoModel == "none"

\* ------------------------------------------------------------------ state
VARIABLES
    client,             \* self.client is set (an InferenceClient) or None
    current_model_id,   \* self.current_model_id
    prompt,             \* prompt_text holds a non-blank prompt
    stream_var,         \* the "Stream response" checkbox
    generation_active,  \* self.generation_active
    stop_flag,          \* self.stop_flag
    generate_btn,       \* state of generate_btn: "normal" / "disabled"
    stop_btn,           \* state of stop_btn
    status_var,         \* the status bar text, by kind
    response_text,      \* content of the response pane (without Tk's final newline)
    spans,              \* tag ranges applied to the response pane: [start, end, tag]
    tcl_error_at,       \* start offsets at which the pane's tag_add raises tk.TclError
    response_queue,     \* self.response_queue: sequence of <<action, payload>>
    threads,            \* the generation threads, by slot
    in_tick,            \* process_queue is running (between its first get_nowait and queue.Empty)
    after_scheduled,    \* a root.after(50, process_queue) callback is pending
    enqueued,           \* history: every event put since the current session was accepted
    applied,            \* history: every event handled since the current session was accepted
    last,               \* history: the last presentation-context callback
    cleared             \* history: clear_all ran since the current session was accepted

pres == <<client, current_model_id, prompt, stream_var, generation_active, stop_flag, generate_btn,
          stop_btn, status_var, response_text, spans, tcl_error_at>>
vars == <<client, current_model_id, prompt, stream_var, generation_active, stop_flag, generate_btn,
          stop_btn, status_var, response_text, spans, tcl_error_at, response_queue, threads,
          in_tick, after_scheduled, enqueued, applied, last, cleared>>

\* A thread slot with no thread in it.
IdleThread ==
    [pc |-> "idle", stream |-> FALSE, chunk |-> NoContent, exc |-> NoException,
     sent |-> <<>>, chunks |-> <<>>, exit |-> "none", calls |-> 0,
     accepted_model |-> NoModel, model |-> NoModel]

\* The thread object created at line 1022, about to run worker(): stream is the
\* local captured at line 983; accepted_model records self.current_model_id as it
\* is when generate_code accepts (history, the code keeps no copy).
NewThread(stream) ==
    [IdleThread EXCEPT !.pc = "call", !.stream = stream,
                       !.accepted_model = current_model_id]

\* A thread that can still put an event on the queue.
Live(t) == t.pc \notin {"idle", "finished"}

LastOp(op, arg) == [op |-> op, arg |-> arg, before |-> response_text]

\* ------------------------------------------------------------------ queue
\* queue.Queue.put: FIFO, unbounded.
put(q, item) == Append(q, item)

\* Variant of get_nowait: the newest item first (a LifoQueue).
get_nowait_lifo(q) == [item |-> q[Len(q)], rest |-> SubSeq(q, 1, Len(q) - 1)]

\* queue.Queue.get_nowait on a non-empty queue: the item and the remaining queue.
get_nowait(q) == [item |-> Head(q), rest |-> Tail(q)]

Init ==
    /\ client = FALSE
    /\ current_model_id = DefaultModelId
    /\ tcl_error_at = {}
    /\ prompt = FALSE
    /\ stream_var = TRUE
    /\ generation_active = FALSE
    /\ stop_flag = FALSE
    /\ generate_btn = "disabled"
    /\ stop_btn = "disabled"
    /\ status_var = "enter_key"
    /\ response_text = <<>>
    /\ spans = {}
    /\ response_queue = <<>>
    /\ threads = [w \in Workers |-> IdleThread]
    /\ in_tick = FALSE
    /\ after_scheduled = TRUE
    /\ enqueued = <<>>
    /\ applied = <<>>
    /\ last = [op |-> "init", arg |-> <<>>, before |-> <<>>]
    /\ cleared = FALSE

\* ------------------------------------------------------------ highlighting
\* text[:300]  (line 135)
PrefixLen == 300

Min(a, b) == IF a < b THEN a ELSE b

\* str.lower() on the characters that occur.
LowerChar(c) ==
    CASE c = "E" -> "e" [] c = "R" -> "r" [] c = "O" -> "o" [] c = "D" -> "d"
      [] c = "F" -> "f" [] OTHER -> c

Lower(text) == [i \in DOMAIN text |-> LowerChar(text[i])]

\* "marker in text"
Contains(text, marker) ==
    \E i \in 1..(Len(text) - Len(marker) + 1) :
        SubSeq(text, i, i + Len(marker) - 1) = marker

\* Characters str.strip() removes.
Whitespace == {NL, " ", "\t"}

\* str.lstrip(chars): the text from its first character not in chars.
LStrip(text, chars) ==
    IF \A i \in DOMAIN text : text[i] \in chars THEN <<>>
    ELSE LET k == CHOOSE i \in DOMAIN text :
                    text[i] \notin chars /\ \A j \in 1..(i - 1) : text[j] \in chars
         IN SubSeq(text, k, Len(text))

\* str.rstrip(chars): the text up to its last character not in chars.
RStrip(text, chars) ==
    IF \A i \in DOMAIN text : text[i] \in chars THEN <<>>
    ELSE LET k == CHOOSE i \in DOMAIN text :
                    text[i] \notin chars /\ \A j \in (i + 1)..Len(text) : text[j] \in chars
         IN SubSeq(text, 1, k)

\* str.strip(chars)
Strip(text, chars) == RStrip(LStrip(text, chars), chars)

PythonMarkers ==
    {<<"i", "m", "p", "o", "r", "t", " ">>, <<"d", "e", "f", " ">>,
     <<"c", "l", "a", "s", "s", " ">>, <<"p", "r", "i", "n", "t", "(">>,
     <<"_", "_", "i", "n", "i", "t", "_", "_">>}
BashMarkers ==
    {<<"#", "!", "/", "b", "i", "n", "/", "b", "a", "s", "h">>, <<"s", "u", "d", "o", " ">>,
     <<"a", "p", "t", " ">>, <<"c", "u", "r", "l", " ">>}
CMarkers ==
    {<<"#", "i", "n", "c", "l", "u", "d", "e">>, <<"i", "n", "t", " ", "m", "a", "i", "n", "(">>}
JavascriptMarkers ==
    {<<"f", "u", "n", "c", "t", "i", "o", "n", " ">>, <<"c", "o", "n", "s", "t", " ">>,
     <<"l", "e", "t", " ">>, <<"v", "a", "r", " ">>, <<"=", ">">>}
HtmlMarker == <<"<", "h", "t", "m", "l">>

\* Variant of _detect_lexer: the shell markers are tested before the Python ones.
_detect_lexer_bash_first(text) ==
    LET first == Lower(SubSeq(text, 1, Min(PrefixLen, Len(text)))) IN
        IF \E k \in BashMarkers : Contains(first, k) THEN "BashLexer"
        ELSE IF \E k \in PythonMarkers : Contains(first, k) THEN "PythonLexer"
        ELSE IF \E k \in CMarkers : Contains(first, k) THEN "CLexer"
        ELSE IF \E k \in JavascriptMarkers : Contains(first, k) THEN "JavascriptLexer"
        ELSE IF Strip(text, Whitespace) # <<>> /\ Head(Strip(text, Whitespace)) = "{"
             THEN "JsonLexer"
        ELSE IF Contains(first, HtmlMarker) THEN "HtmlLexer"
        ELSE "PythonLexer"

\* _detect_lexer(text): ordered, first match wins, PythonLexer by default.
_detect_lexer(text) ==
    LET first == Lower(SubSeq(text, 1, Min(PrefixLen, Len(text)))) IN
        IF \E k \in PythonMarkers : Contains(first, k) THEN "PythonLexer"
        ELSE IF \E k \in BashMarkers : Contains(first, k) THEN "BashLexer"
        ELSE IF \E k \in CMarkers : Contains(first, k) THEN "CLexer"
        ELSE IF \E k \in JavascriptMarkers : Contains(first, k) THEN "JavascriptLexer"
        ELSE IF Strip(text, Whitespace) # <<>> /\ Head(Strip(text, Whitespace)) = "{"
             THEN "JsonLexer"
        ELSE IF Contains(first, HtmlMarker) THEN "HtmlLexer"
        ELSE "PythonLexer"

\* Character classes of the scanner below.
Digits == {"0", "1", "2", "3", "4", "5", "6", "7", "8", "9"}
Punctuation == {"[", "]", "{", "}", "(", ")", "<", ">", "=", "#", "!", "/", "_"}
IsWord(c) == c \notin Digits \cup Punctuation \cup Whitespace

\* Length of the longest prefix of text whose characters all satisfy the class test.
RECURSIVE RunLen(_, _)
RunLen(text, inword) ==
    IF text = <<>> THEN 0
    ELSE IF (inword /\ (IsWord(Head(text)) \/ Head(text) \in Digits))
            \/ (~inword /\ Head(text) \in Digits)
         THEN 1 + RunLen(Tail(text), inword)
         ELSE 0

\* The token type a lexer gives a run of the character class.
TokenType(lexer, class) ==
    CASE lexer = "HtmlLexer" -> "Token.Text"
      [] class = "digits" -> (IF lexer = "BashLexer" THEN "Token.Number"
                              ELSE "Token.Number.Integer")
      [] class = "word" -> (IF lexer = "BashLexer" THEN "Token.Text" ELSE "Token.Name")
      [] class = "space" -> "Token.Text.Whitespace"
      [] OTHER -> "Token.Punctuation"

\* Lexer.get_tokens_unprocessed: words, numbers, single whitespace and punctuation
\* characters; the token texts concatenate to the text scanned.
RECURSIVE Scan(_, _)
Scan(text, lexer) ==
    IF text = <<>> THEN <<>>
    ELSE LET c == Head(text)
             n == IF c \in Digits THEN RunLen(text, FALSE)
                  ELSE IF IsWord(c) THEN RunLen(text, TRUE)
                  ELSE 1
             class == IF c \in Digits THEN "digits"
                      ELSE IF IsWord(c) THEN "word"
                      ELSE IF c \in Whitespace THEN "space"
                      ELSE "punct"
         IN <<[type |-> TokenType(lexer, class), content |-> SubSeq(text, 1, n)]>>
            \o Scan(SubSeq(text, n + 1, Len(text)), lexer)

\* pygments.lex(text, lexer) with the lexers' default options: stripnl removes
\* leading and trailing newlines, ensurenl puts one newline back at the end.
lex(text, lexer) ==
    LET stripped == Strip(text, {NL})
        ensured == IF stripped # <<>> /\ stripped[Len(stripped)] = NL
                   THEN stripped ELSE stripped \o <<NL>>
    IN Scan(ensured, lexer)

\* _get_tag_for_token(token): exact membership in the TAG_MAP tuples.
_get_tag_for_token(token) ==
    CASE token \in {"Token.Keyword", "Token.Keyword.Constant", "Token.Keyword.Declaration",
                    "Token.Keyword.Namespace"} -> "keyword"
      [] token \in {"Token.String", "Token.String.Double", "Token.String.Single",
                    "Token.String.Doc", "Token.String.Heredoc"} -> "string"
      [] token \in {"Token.Comment", "Token.Comment.Single", "Token.Comment.Multiline",
                    "Token.Comment.Special"} -> "comment"
      [] token \in {"Token.Name.Function", "Token.Name.Class", "Token.Name.Decorator"}
            -> "function"
      [] token \in {"Token.Number", "Token.Number.Integer", "Token.Number.Float",
                    "Token.Number.Hex", "Token.Number.Oct"} -> "number"
      [] token \in {"Token.Operator", "Token.Operator.Word"} -> "operator"
      [] token \in {"Token.Name.Builtin", "Token.Name.Builtin.Pseudo",
                    "Token.Name.Exception"} -> "builtin"
      [] OTHER -> "None"

\* Text.tag_add(tag, "1.0+{start}c", "1.0+{end}c") on a widget holding size
\* characters: Tk clamps both indices to the end of the text and ignores an
\* empty range.
tag_add(applied_spans, tag, start, end, size) ==
    IF Min(start, size) < Min(end, size)
    THEN applied_spans \cup {[start |-> Min(start, size), end |-> Min(end, size), tag |-> tag]}
    ELSE applied_spans

\* Variant of ApplyTokens: idx is advanced before the range is computed, so every
\* range starts where its token ends.
RECURSIVE ApplyTokens_late_start(_, _, _, _)
ApplyTokens_late_start(tokens, idx, applied_spans, size) ==
    IF tokens = <<>> THEN applied_spans
    ELSE LET tok == Head(tokens)
             start == idx + Len(tok.content)
             end == start + Len(tok.content)
             tag == _get_tag_for_token(tok.type)
         IN ApplyTokens_late_start(Tail(tokens), start,
                        IF tag # "None" THEN tag_add(applied_spans, tag, start, end, size)
                        ELSE applied_spans,
                        size)

\* Variant of ApplyTokens: a tag_add that raises ends the loop, the tokens after it
\* get no range.
RECURSIVE ApplyTokens_raise_ends_pass(_, _, _, _)
ApplyTokens_raise_ends_pass(tokens, idx, applied_spans, size) ==
    IF tokens = <<>> THEN applied_spans
    ELSE LET tok == Head(tokens)
             start == idx
             end == idx + Len(tok.content)
             tag == _get_tag_for_token(tok.type)
         IN IF tag # "None" /\ start \in tcl_error_at THEN applied_spans
            ELSE ApplyTokens_raise_ends_pass(Tail(tokens), end,
                        IF tag # "None" THEN tag_add(applied_spans, tag, start, end, size)
                        ELSE applied_spans,
                        size)

\* _apply_highlighting(text, lexer): the loop over the tokens, idx accumulating; a
\* tag_add that raises tk.TclError is passed over (lines 158-161).
RECURSIVE ApplyTokens(_, _, _, _)
ApplyTokens(tokens, idx, applied_spans, size) ==
    IF tokens = <<>> THEN applied_spans
    ELSE LET tok == Head(tokens)
             start == idx
             end == idx + Len(tok.content)
             tag == _get_tag_for_token(tok.type)
         IN ApplyTokens(Tail(tokens), end,
                        IF tag # "None" /\ start \notin tcl_error_at
                        THEN tag_add(applied_spans, tag, start, end, size)
                        ELSE applied_spans,
                        size)

_apply_highlighting(text, lexer) == ApplyTokens(lex(text, lexer), 0, {}, Len(text))

\* Variant of highlight_syntax: the tags already on the pane are kept and the pass
\* numbers its tokens from the end of the last range it finds.
highlight_syntax_resume(buffer, current) ==
    LET text == buffer \o <<NL>>
        from == IF current = {} THEN 0
                ELSE CHOOSE e \in {sp.end : sp \in current} :
                        \A sp \in current : sp.end <= e
    IN  IF Strip(text, Whitespace) = <<>> THEN current
        ELSE ApplyTokens(lex(text, _detect_lexer(text)), from, current, Len(text))

\* highlight_syntax() on a pane holding buffer with the spans current.
highlight_syntax(buffer, current) ==
    LET text == buffer \o <<NL>> IN
        IF Strip(text, Whitespace) = <<>> THEN current
        ELSE _apply_highlighting(text, _detect_lexer(text))

\* ------------------------------------------------------------ presentation
\* "Error" in self.status_var.get()  (line 1081)
ContainsError(status) == status = "error_during_generation"

\* The error block _handle_error inserts: f"\n\n[ERROR]\n{error}"  (line 1067)
ErrorBlock(error) == <<NL, NL, "[", "E", "R", "R", "O", "R", "]", NL>> \o error

\* Variant of _append_response: insert at "1.0" instead of tk.END.
_append_response_front(text) ==
    /\ response_text' = text \o response_text
    /\ spans' = highlight_syntax(text \o response_text, spans)
    /\ UNCHANGED <<generation_active, stop_flag, generate_btn, stop_btn, status_var>>

\* Variant of _append_response: the handler also ends the session.
_append_response_finishes(text) ==
    /\ response_text' = response_text \o text
    /\ spans' = highlight_syntax(response_text \o text, spans)
    /\ generation_active' = FALSE
    /\ UNCHANGED <<stop_flag, generate_btn, stop_btn, status_var>>

\* _append_response(text): insert at tk.END.
_append_response(text) ==
    /\ response_text' = response_text \o text
    /\ spans' = highlight_syntax(response_text \o text, spans)
    /\ UNCHANGED <<generation_active, stop_flag, generate_btn, stop_btn, status_var>>

\* Variant of _set_response: the delete("1.0", tk.END) is missing.
_set_response_nodelete(text) ==
    /\ response_text' = response_text \o text
    /\ spans' = highlight_syntax(response_text \o text, spans)
    /\ UNCHANGED <<generation_active, stop_flag, generate_btn, stop_btn, status_var>>

\* _set_response(text): delete everything, then insert.  insert(tk.END, None)
\* raises tk.TclError (a None argument ends the Tcl command, which is then short
\* of its text) after the delete and before highlight_syntax.
_set_response(text) ==
    /\ response_text' = IF text = None THEN <<>> ELSE text
    /\ spans' = IF text = None THEN {} ELSE highlight_syntax(text, {})
    /\ UNCHANGED <<generation_active, stop_flag, generate_btn, stop_btn, status_var>>

\* Variant of _handle_error: generation_active is not reset.
_handle_error_stays_active(error) ==
    /\ response_text' = response_text \o ErrorBlock(error)
    /\ spans' = highlight_syntax(response_text \o ErrorBlock(error), spans)
    /\ status_var' = "error_during_generation"
    /\ stop_flag' = FALSE
    /\ generate_btn' = "normal"
    /\ stop_btn' = "disabled"
    /\ UNCHANGED generation_active

\* Variant of _handle_error: the error block replaces the text instead of following it.
_handle_error_replace(error) ==
    /\ response_text' = ErrorBlock(error)
    /\ spans' = highlight_syntax(ErrorBlock(error), {})
    /\ status_var' = "error_during_generation"
    /\ generation_active' = FALSE
    /\ stop_flag' = FALSE
    /\ generate_btn' = "normal"
    /\ stop_btn' = "disabled"

\* _handle_error(error): append the error block, back to idle.
_handle_error(error) ==
    /\ response_text' = response_text \o ErrorBlock(error)
    /\ spans' = highlight_syntax(response_text \o ErrorBlock(error), spans)
    /\ status_var' = "error_during_generation"
    /\ generation_active' = FALSE
    /\ stop_flag' = FALSE
    /\ generate_btn' = "normal"
    /\ stop_btn' = "disabled"

\* Variant of _finish_generation: it also empties the pane.
_finish_generation_clears ==
    /\ generation_active' = FALSE
    /\ stop_flag' = FALSE
    /\ generate_btn' = "normal"
    /\ stop_btn' = "disabled"
    /\ status_var' = IF ContainsError(status_var) THEN status_var ELSE "finished"
    /\ response_text' = <<>>
    /\ spans' = {}

\* _finish_generation(): back to idle, buffer untouched.
_finish_generation ==
    /\ generation_active' = FALSE
    /\ stop_flag' = FALSE
    /\ generate_btn' = "normal"
    /\ stop_btn' = "disabled"
    /\ status_var' = IF ContainsError(status_var) THEN status_var ELSE "finished"
    /\ UNCHANGED <<response_text, spans>>

\* The if/elif chain of process_queue (lines 1036-1043).
Dispatch(action, payload) ==
    CASE action = "append" -> _append_response(payload)
      [] action = "set" -> _set_response(payload)
      [] action = "error" -> _handle_error(payload)
      [] action = "done" -> _finish_generation
      [] OTHER -> UNCHANGED <<generation_active, stop_flag, generate_btn, stop_btn,
                              status_var, response_text, spans>>

\* The handler of this event raises: _set_response on a payload of None.
Raises(action, payload) == action = "set" /\ payload = None

\* root.after(50, process_queue) fires: the tick begins.
process_queue_start ==
    /\ after_scheduled
    /\ ~in_tick
    /\ in_tick' = TRUE
    /\ after_scheduled' = FALSE
    /\ UNCHANGED <<pres, response_queue, threads, enqueued, applied, last, cleared>>

\* Variant of process_queue_step: one event per tick, the loop returns after the
\* first handler.
process_queue_step_one_per_tick ==
    /\ in_tick
    /\ response_queue # <<>>
    /\ LET got == get_nowait(response_queue) IN
        /\ response_queue' = got.rest
        /\ Dispatch(got.item[1], got.item[2])
        /\ applied' = Append(applied, got.item)
        /\ last' = LastOp(got.item[1], got.item[2])
    /\ in_tick' = FALSE
    /\ after_scheduled' = TRUE
    /\ UNCHANGED <<client, current_model_id, tcl_error_at, prompt, stream_var, threads, enqueued, cleared>>

\* One iteration of "while True": get_nowait returns an event, its handler runs.
\* Only queue.Empty is caught (line 1044): an exception of the handler leaves
\* process_queue before line 1046, so no next tick is scheduled.
process_queue_step ==
    /\ in_tick
    /\ response_queue # <<>>
    /\ LET got == get_nowait(response_queue) IN
        /\ response_queue' = got.rest
        /\ Dispatch(got.item[1], got.item[2])
        /\ applied' = Append(applied, got.item)
        /\ last' = LastOp(got.item[1], got.item[2])
        /\ in_tick' = ~Raises(got.item[1], got.item[2])
    /\ UNCHANGED <<client, current_model_id, tcl_error_at, prompt, stream_var, threads,
                   after_scheduled, enqueued, cleared>>

\* get_nowait raises queue.Empty: the tick ends and schedules the next one.
process_queue_empty ==
    /\ in_tick
    /\ response_queue = <<>>
    /\ in_tick' = FALSE
    /\ after_scheduled' = TRUE
    /\ UNCHANGED <<pres, response_queue, threads, enqueued, applied, last, cleared>>

\* The first thread slot a new thread can take.
FreeSlot == CHOOSE w \in Workers :
    /\ ~Live(threads[w])
    /\ \A v \in Workers : ~Live(threads[v]) => w <= v

\* Variant of generate_code: the generation_active check (lines 957-958) is missing.
generate_code_unguarded ==
    /\ ~in_tick
    /\ IF ~client THEN
            /\ last' = LastOp("generate_no_client", <<>>)
            /\ UNCHANGED <<pres, response_queue, threads, in_tick, after_scheduled, enqueued, applied, cleared>>
       ELSE IF ~prompt THEN
            /\ last' = LastOp("generate_empty_prompt", <<>>)
            /\ UNCHANGED <<pres, response_queue, threads, in_tick, after_scheduled, enqueued, applied, cleared>>
       ELSE
            /\ \E w \in Workers : ~Live(threads[w])
            /\ generation_active' = TRUE
            /\ stop_flag' = FALSE
            /\ generate_btn' = "disabled"
            /\ stop_btn' = "normal"
            /\ status_var' = "generating"
            /\ response_text' = <<>>
            /\ spans' = {}
            /\ threads' = [w \in Workers |->
                             IF w = FreeSlot THEN NewThread(stream_var)
                             ELSE IF Live(threads[w]) THEN threads[w] ELSE IdleThread]
            /\ enqueued' = response_queue
            /\ applied' = <<>>
            /\ cleared' = FALSE
            /\ last' = LastOp("generate_accepted", <<>>)
            /\ UNCHANGED <<client, current_model_id, tcl_error_at, prompt, stream_var, response_queue, in_tick, after_scheduled>>

\* Variant of generate_code: the generation_active check comes after the resets of
\* lines 961-967 instead of before them.
generate_code_late_check ==
    /\ ~in_tick
    /\ IF ~client THEN
            /\ last' = LastOp("generate_no_client", <<>>)
            /\ UNCHANGED <<pres, response_queue, threads, in_tick, after_scheduled, enqueued, applied, cleared>>
       ELSE IF ~prompt THEN
            /\ last' = LastOp("generate_empty_prompt", <<>>)
            /\ UNCHANGED <<pres, response_queue, threads, in_tick, after_scheduled, enqueued, applied, cleared>>
       ELSE IF generation_active THEN
            /\ stop_flag' = FALSE
            /\ generate_btn' = "disabled"
            /\ stop_btn' = "normal"
            /\ status_var' = "generating"
            /\ response_text' = <<>>
            /\ spans' = {}
            /\ last' = LastOp("generate_rejected", <<>>)
            /\ UNCHANGED <<client, current_model_id, tcl_error_at, prompt, stream_var, generation_active, response_queue,
                           threads, in_tick, after_scheduled, enqueued, applied, cleared>>
       ELSE
            /\ \E w \in Workers : ~Live(threads[w])
            /\ generation_active' = TRUE
            /\ stop_flag' = FALSE
            /\ generate_btn' = "disabled"
            /\ stop_btn' = "normal"
            /\ status_var' = "generating"
            /\ response_text' = <<>>
            /\ spans' = {}
            /\ threads' = [w \in Workers |->
                             IF w = FreeSlot THEN NewThread(stream_var)
                             ELSE IF Live(threads[w]) THEN threads[w] ELSE IdleThread]
            /\ enqueued' = response_queue
            /\ applied' = <<>>
            /\ cleared' = FALSE
            /\ last' = LastOp("generate_accepted", <<>>)
            /\ UNCHANGED <<client, current_model_id, tcl_error_at, prompt, stream_var, response_queue, in_tick, after_scheduled>>

\* Variant of generate_code: the delete("1.0", tk.END) of line 966 is missing.
generate_code_keeps_text ==
    /\ ~in_tick
    /\ IF ~client THEN
            /\ last' = LastOp("generate_no_client", <<>>)
            /\ UNCHANGED <<pres, response_queue, threads, in_tick, after_scheduled, enqueued, applied, cleared>>
       ELSE IF ~prompt THEN
            /\ last' = LastOp("generate_empty_prompt", <<>>)
            /\ UNCHANGED <<pres, response_queue, threads, in_tick, after_scheduled, enqueued, applied, cleared>>
       ELSE IF generation_active THEN
            /\ last' = LastOp("generate_rejected", <<>>)
            /\ UNCHANGED <<pres, response_queue, threads, in_tick, after_scheduled, enqueued, applied, cleared>>
       ELSE
            /\ \E w \in Workers : ~Live(threads[w])
            /\ generation_active' = TRUE
            /\ stop_flag' = FALSE
            /\ generate_btn' = "disabled"
            /\ stop_btn' = "normal"
            /\ status_var' = "generating"
            /\ UNCHANGED <<response_text, spans>>
            /\ threads' = [w \in Workers |->
                             IF w = FreeSlot THEN NewThread(stream_var)
                             ELSE IF Live(threads[w]) THEN threads[w] ELSE IdleThread]
            /\ enqueued' = response_queue
            /\ applied' = <<>>
            /\ cleared' = FALSE
            /\ last' = LastOp("generate_accepted", <<>>)
            /\ UNCHANGED <<client, current_model_id, tcl_error_at, prompt, stream_var, response_queue, in_tick, after_scheduled>>

\* generate_code(): Ctrl+Return in the prompt or the generate button.
generate_code ==
    /\ ~in_tick
    /\ IF ~client THEN
            /\ last' = LastOp("generate_no_client", <<>>)
            /\ UNCHANGED <<pres, response_queue, threads, in_tick, after_scheduled, enqueued, applied, cleared>>
       ELSE IF ~prompt THEN
            /\ last' = LastOp("generate_empty_prompt", <<>>)
            /\ UNCHANGED <<pres, response_queue, threads, in_tick, after_scheduled, enqueued, applied, cleared>>
       ELSE IF generation_active THEN
            /\ last' = LastOp("generate_rejected", <<>>)
            /\ UNCHANGED <<pres, response_queue, threads, in_tick, after_scheduled, enqueued, applied, cleared>>
       ELSE
            /\ \E w \in Workers : ~Live(threads[w])
            /\ generation_active' = TRUE
            /\ stop_flag' = FALSE
            /\ generate_btn' = "disabled"
            /\ stop_btn' = "normal"
            /\ status_var' = "generating"
            /\ response_text' = <<>>
            /\ spans' = {}
            /\ threads' = [w \in Workers |->
                             IF w = FreeSlot THEN NewThread(stream_var)
                             ELSE IF Live(threads[w]) THEN threads[w] ELSE IdleThread]
            /\ enqueued' = response_queue
            /\ applied' = <<>>
            /\ cleared' = FALSE
            /\ last' = LastOp("generate_accepted", <<>>)
            /\ UNCHANGED <<client, current_model_id, tcl_error_at, prompt, stream_var, response_queue, in_tick, after_scheduled>>

\* Variant of stop_generation: the generation_active test (lines 1025-1026) is missing.
stop_generation_unguarded ==
    /\ ~in_tick
    /\ stop_flag' = TRUE
    /\ status_var' = "stopping"
    /\ last' = LastOp("stop", <<>>)
    /\ UNCHANGED <<client, current_model_id, tcl_error_at, prompt, stream_var, generation_active,
                   generate_btn, stop_btn, response_text, spans, response_queue, threads,
                   in_tick, after_scheduled, enqueued, applied, cleared>>

\* stop_generation(): the stop button.  The call is allowed in every state; while
\* no session is active it returns at line 1026.
stop_generation ==
    /\ ~in_tick
    /\ IF ~generation_active THEN
            UNCHANGED <<stop_flag, status_var>>
       ELSE
            /\ stop_flag' = TRUE
            /\ status_var' = "stopping"
    /\ last' = LastOp("stop", <<>>)
    /\ UNCHANGED <<client, current_model_id, tcl_error_at, prompt, stream_var, generation_active, generate_btn, stop_btn,
                   response_text, spans, response_queue, threads, in_tick, after_scheduled, enqueued,
                   applied, cleared>>

\* Variant of clear_all: it also empties the queue.
clear_all_drops_queue ==
    /\ ~in_tick
    /\ prompt' = FALSE
    /\ response_text' = <<>>
    /\ spans' = {}
    /\ status_var' = "cleared"
    /\ cleared' = TRUE
    /\ response_queue' = <<>>
    /\ last' = LastOp("clear", <<>>)
    /\ UNCHANGED <<client, current_model_id, tcl_error_at, stream_var, generation_active,
                   stop_flag, generate_btn, stop_btn, threads, in_tick, after_scheduled, enqueued, applied>>

\* clear_all(): the clear button or Ctrl+L.
clear_all ==
    /\ ~in_tick
    /\ prompt' = FALSE
    /\ response_text' = <<>>
    /\ spans' = {}
    /\ status_var' = "cleared"
    /\ cleared' = TRUE
    /\ last' = LastOp("clear", <<>>)
    /\ UNCHANGED <<client, current_model_id, tcl_error_at, stream_var, generation_active, stop_flag, generate_btn, stop_btn,
                   response_queue, threads, in_tick, after_scheduled, enqueued, applied>>

\* activate() of the key dialog, on a key the test call accepts (lines 719-733).
activate ==
    /\ ~in_tick
    /\ client' = TRUE
    /\ generate_btn' = "normal"
    /\ status_var' = "ready"
    /\ last' = LastOp("activate", <<>>)
    /\ UNCHANGED <<current_model_id, tcl_error_at, prompt, stream_var, generation_active, stop_flag,
                   stop_btn,
                   response_text,
                   spans, response_queue, threads, in_tick, after_scheduled, enqueued, applied, cleared>>

\* The user types a prompt into prompt_text.
type_prompt ==
    /\ ~in_tick
    /\ ~prompt
    /\ prompt' = TRUE
    /\ UNCHANGED <<client, current_model_id, tcl_error_at, stream_var, generation_active, stop_flag, generate_btn, stop_btn,
                   status_var, response_text, spans, response_queue, threads, in_tick, after_scheduled,
                   enqueued, applied, last, cleared>>

\* The user toggles the "Stream response" checkbox.
toggle_stream ==
    /\ ~in_tick
    /\ stream_var' = ~stream_var
    /\ UNCHANGED <<client, current_model_id, tcl_error_at, prompt, generation_active, stop_flag, generate_btn, stop_btn,
                   status_var, response_text, spans, response_queue, threads, in_tick, after_scheduled,
                   enqueued, applied, last, cleared>>

\* ------------------------------------------------------------------ worker
\* self.response_queue.put(item) by thread w, which then continues at pc.
WorkerPut(w, item, pc) ==
    /\ response_queue' = put(response_queue, item)
    /\ enqueued' = Append(enqueued, item)
    /\ threads' = [threads EXCEPT ![w] =
                     [@ EXCEPT !.pc = pc,
                               !.sent = Append(@, [ev |-> item, stop |-> stop_flag])]]

WorkerGoto(w, t) == threads' = [threads EXCEPT ![w] = t]

\* self.client.chat_completion(...): lines 988-995 (stream) and 1004-1011.  The
\* model argument is self.current_model_id as the thread reads it at the call.
worker_call(w) ==
    /\ threads[w].pc = "call"
    /\ LET t == [threads[w] EXCEPT !.calls = @ + 1, !.model = current_model_id] IN
        \/ /\ t.stream
           /\ WorkerGoto(w, [t EXCEPT !.pc = "next"])
        \/ /\ ~t.stream
           /\ \E c \in Completions :
                WorkerGoto(w, [t EXCEPT !.pc = "put_set", !.exit = "returned",
                                        !.chunk = [has |-> TRUE, content |-> c]])
        \/ \E e \in Exceptions :
                WorkerGoto(w, [t EXCEPT !.pc = "except", !.exit = "raised", !.exc = e])
    /\ UNCHANGED <<pres, response_queue, in_tick, after_scheduled, enqueued, applied, last, cleared>>

\* The for statement asks the stream for its next chunk (line 988).
worker_next(w) ==
    /\ threads[w].pc = "next"
    /\ LET t == threads[w] IN
        \/ /\ Len(t.chunks) < MaxChunks
           /\ \E d \in Deltas :
                WorkerGoto(w, [t EXCEPT !.pc = "check", !.chunk = d,
                                        !.chunks = Append(@, d)])
        \/ WorkerGoto(w, [t EXCEPT !.pc = "put_done", !.exit = "exhausted"])
        \/ \E e \in Exceptions :
                WorkerGoto(w, [t EXCEPT !.pc = "except", !.exit = "raised", !.exc = e])
    /\ UNCHANGED <<pres, response_queue, in_tick, after_scheduled, enqueued, applied, last, cleared>>

\* Variant of worker_check: the break leaves worker() altogether, no done is put.
worker_check_returns(w) ==
    /\ threads[w].pc = "check"
    /\ IF stop_flag
       THEN WorkerGoto(w, [threads[w] EXCEPT !.pc = "finished", !.exit = "break"])
       ELSE WorkerGoto(w, [threads[w] EXCEPT !.pc = "put_append"])
    /\ UNCHANGED <<pres, response_queue, in_tick, after_scheduled, enqueued, applied, last, cleared>>

\* Variant of worker_check: the flag test sits at the bottom of the loop body, so the
\* chunk in hand is still put before the loop is left.
worker_check_keeps_chunk(w) ==
    /\ threads[w].pc = "check"
    /\ LET d == threads[w].chunk IN
        IF stop_flag /\ d.has /\ d.content # <<>>
        THEN /\ response_queue' = put(response_queue, <<"append", d.content>>)
             /\ enqueued' = Append(enqueued, <<"append", d.content>>)
             /\ threads' = [threads EXCEPT ![w] =
                              [@ EXCEPT !.pc = "put_done", !.exit = "break",
                                        !.sent = Append(@, [ev |-> <<"append", d.content>>,
                                                            stop |-> stop_flag])]]
        ELSE /\ IF stop_flag
                THEN WorkerGoto(w, [threads[w] EXCEPT !.pc = "put_done", !.exit = "break"])
                ELSE WorkerGoto(w, [threads[w] EXCEPT !.pc = "put_append"])
             /\ UNCHANGED <<response_queue, enqueued>>
    /\ UNCHANGED <<pres, in_tick, after_scheduled, applied, last, cleared>>

\* if self.stop_flag: break  (lines 996-997)
worker_check(w) ==
    /\ threads[w].pc = "check"
    /\ IF stop_flag
       THEN WorkerGoto(w, [threads[w] EXCEPT !.pc = "put_done", !.exit = "break"])
       ELSE WorkerGoto(w, [threads[w] EXCEPT !.pc = "put_append"])
    /\ UNCHANGED <<pres, response_queue, in_tick, after_scheduled, enqueued, applied, last, cleared>>

\* Variant of worker_put_append: the "if content:" test (line 1000) is missing.
worker_put_append_always(w) ==
    /\ threads[w].pc = "put_append"
    /\ WorkerPut(w, <<"append", threads[w].chunk.content>>, "next")
    /\ UNCHANGED <<pres, in_tick, after_scheduled, applied, last, cleared>>

\* Variant of worker_put_append: the thread inserts the text into the pane itself
\* instead of putting an event.
worker_put_append_direct(w) ==
    /\ threads[w].pc = "put_append"
    /\ LET d == threads[w].chunk IN
        /\ response_text' = IF d.has THEN response_text \o d.content ELSE response_text
        /\ WorkerGoto(w, [threads[w] EXCEPT !.pc = "next"])
    /\ UNCHANGED <<client, current_model_id, tcl_error_at, prompt, stream_var, generation_active, stop_flag,
                   generate_btn, stop_btn, status_var, spans, response_queue, in_tick, after_scheduled,
                   enqueued, applied, last, cleared>>

\* content = getattr(delta, "content", None); if content: put(("append", content))
worker_put_append(w) ==
    /\ threads[w].pc = "put_append"
    /\ LET d == threads[w].chunk IN
        IF d.has /\ d.content # <<>>
        THEN WorkerPut(w, <<"append", d.content>>, "next")
        ELSE /\ WorkerGoto(w, [threads[w] EXCEPT !.pc = "next"])
             /\ UNCHANGED <<response_queue, enqueued>>
    /\ UNCHANGED <<pres, in_tick, after_scheduled, applied, last, cleared>>

\* Variant of worker_put_set: the non-streaming branch tests the stop flag before
\* it puts the text.
worker_put_set_checks_stop(w) ==
    /\ threads[w].pc = "put_set"
    /\ IF stop_flag
       THEN /\ WorkerGoto(w, [threads[w] EXCEPT !.pc = "put_done"])
            /\ UNCHANGED <<response_queue, enqueued>>
       ELSE WorkerPut(w, <<"set", threads[w].chunk.content>>, "put_done")
    /\ UNCHANGED <<pres, in_tick, after_scheduled, applied, last, cleared>>

\* self.response_queue.put(("set", content))  (line 1013)
worker_put_set(w) ==
    /\ threads[w].pc = "put_set"
    /\ WorkerPut(w, <<"set", threads[w].chunk.content>>, "put_done")
    /\ UNCHANGED <<pres, in_tick, after_scheduled, applied, last, cleared>>

\* self.response_queue.put(("done", ""))  (lines 1002 and 1014)
worker_put_done(w) ==
    /\ threads[w].pc = "put_done"
    /\ WorkerPut(w, <<"done", <<>>>>, "finished")
    /\ UNCHANGED <<pres, in_tick, after_scheduled, applied, last, cleared>>

\* Variant of worker_except: the ("done", "") put sits in a finally clause, so it
\* also follows the ("error", ...) put.
worker_except_then_done(w) ==
    /\ threads[w].pc = "except"
    /\ WorkerPut(w, <<"error", threads[w].exc.msg>>, "put_done")
    /\ UNCHANGED <<pres, in_tick, after_scheduled, applied, last, cleared>>

\* The except clauses: self.response_queue.put(("error", str(exc)))
worker_except(w) ==
    /\ threads[w].pc = "except"
    /\ WorkerPut(w, <<"error", threads[w].exc.msg>>, "finished")
    /\ UNCHANGED <<pres, in_tick, after_scheduled, applied, last, cleared>>

worker ==
    \E w \in Workers :
        \/ worker_call(w)
        \/ worker_next(w)
        \/ worker_check(w)
        \/ worker_put_append(w)
        \/ worker_put_set(w)
        \/ worker_put_done(w)
        \/ worker_except(w)

Next ==
    \/ generate_code
    \/ stop_generation
    \/ clear_all
    \/ activate
    \/ type_prompt
    \/ toggle_stream
    \/ process_queue_start
    \/ process_queue_step
    \/ process_queue_empty
    \/ \E w \in Workers : worker_call(w)
    \/ \E w \in Workers : worker_next(w)
    \/ \E w \in Workers : worker_check(w)
    \/ \E w \in Workers : worker_put_append(w)
    \/ \E w \in Workers : worker_put_set(w)
    \/ \E w \in Workers : worker_put_done(w)
    \/ \E w \in Workers : worker_except(w)

Spec == Init /\ [][Next]_vars

\* The scheduling the program runs under: the started thread keeps running (the
\* remote call returns, yields its chunks or raises) and the 50 ms timer keeps
\* firing process_queue, which runs to its end.  The user's actions are not forced.
\* The last conjunct is weak fairness of process_queue_step written out: the step
\* is enabled exactly while a tick runs on a non-empty queue.
Fairness ==
    /\ WF_vars(worker)
    /\ WF_vars(process_queue_start)
    /\ WF_vars(process_queue_empty)
    /\ \/ []<>(~(in_tick /\ response_queue # <<>>))
       \/ []<><<process_queue_step>>_vars

SpecLive == Spec /\ Fairness

\* ------------------------------------------------------- dispatcher alone
\* The update dispatcher fed an arbitrary event sequence on an arbitrary buffer:
\* the per-event contract of lines 1031-1083, whatever the producer does.
MaxQueue == 2

Events ==
    {<<"append", t>> : t \in ChunkTexts} \cup {<<"set", c>> : c \in Completions}
    \cup {<<"error", e.msg>> : e \in Exceptions} \cup {<<"done", <<>>>>}

StartTexts == {<<>>, <<"a">>, <<"a">> \o ErrorBlock(<<"x">>)}

InitDispatch ==
    /\ client = TRUE
    /\ current_model_id = DefaultModelId
    /\ tcl_error_at = {}
    /\ prompt = TRUE
    /\ stream_var = TRUE
    /\ generation_active = TRUE
    /\ stop_flag \in BOOLEAN
    /\ generate_btn = "disabled"
    /\ stop_btn = "normal"
    /\ status_var = "generating"
    /\ response_text \in StartTexts
    /\ spans = highlight_syntax(response_text, {})
    /\ response_queue \in UNION {[1..k -> Events] : k \in 0..MaxQueue}
    /\ threads = [w \in Workers |-> IdleThread]
    /\ in_tick = FALSE
    /\ after_scheduled = TRUE
    /\ enqueued = response_queue
    /\ applied = <<>>
    /\ last = [op |-> "init", arg |-> <<>>, before |-> response_text]
    /\ cleared = FALSE

NextDispatch ==
    \/ process_queue_start
    \/ process_queue_step
    \/ process_queue_empty

SpecDispatch == InitDispatch /\ [][NextDispatch]_vars

\* ------------------------------------------------- model switching included
\* on_model_change(): the model combobox selects an entry of MODELS (lines 801-805).
on_model_change ==
    /\ ~in_tick
    /\ \E m \in ModelIds : current_model_id' = m
    /\ UNCHANGED <<client, tcl_error_at, prompt, stream_var, generation_active, stop_flag,
                   generate_btn, stop_btn, status_var, response_text, spans, response_queue, threads,
                   in_tick, after_scheduled, enqueued, applied, last, cleared>>

NextRequest ==
    \/ Next
    \/ on_model_change

\* The whole program with the model combobox in use.
SpecRequest == Init /\ [][NextRequest]_vars

\* ------------------------------------------------------- highlighter alone
\* Buffers the response pane can hold.
HighlightTexts ==
    {<<>>, <<NL>>, <<"1">>, <<"1", "a", "1">>, <<"a", " ", "1">>, <<"#", "!", "/", "1">>,
     <<"d", "e", "f", " ", "1">>, ErrorBlock(<<"4", "0", "1">>)}

\* Tag ranges that can be on the pane before a highlight pass.
PriorSpans ==
    {[start |-> 0, end |-> 1, tag |-> "number"], [start |-> 1, end |-> 2, tag |-> "keyword"],
     [start |-> 0, end |-> 3, tag |-> "string"], [start |-> 2, end |-> 4, tag |-> "comment"]}

InitHighlight ==
    /\ client = FALSE
    /\ current_model_id = DefaultModelId
    /\ tcl_error_at = {}
    /\ prompt = FALSE
    /\ stream_var = TRUE
    /\ generation_active = FALSE
    /\ stop_flag = FALSE
    /\ generate_btn = "disabled"
    /\ stop_btn = "disabled"
    /\ status_var = "enter_key"
    /\ response_text \in HighlightTexts
    /\ spans \in SUBSET {sp \in PriorSpans : sp.end <= Len(response_text)}
    /\ response_queue = <<>>
    /\ threads = [w \in Workers |-> IdleThread]
    /\ in_tick = FALSE
    /\ after_scheduled = TRUE
    /\ enqueued = <<>>
    /\ applied = <<>>
    /\ last = [op |-> "init", arg |-> <<>>, before |-> response_text]
    /\ cleared = FALSE

\* <FocusOut> on the response pane: lambda e: self.highlight_syntax()  (line 116).
\* last.arg keeps the spans the pass found on the pane.
focus_out ==
    /\ ~in_tick
    /\ spans' = highlight_syntax(response_text, spans)
    /\ last' = [op |-> IF last.op \in {"highlight", "highlight_again"}
                       THEN "highlight_again" ELSE "highlight",
                arg |-> spans, before |-> response_text]
    /\ UNCHANGED <<client, current_model_id, tcl_error_at, prompt, stream_var, generation_active, stop_flag,
                   generate_btn, stop_btn, status_var, response_text, response_queue, threads,
                   in_tick, after_scheduled, enqueued, applied, cleared>>

NextHighlight == focus_out

SpecHighlight == InitHighlight /\ [][NextHighlight]_vars

\* ------------------------------------------ dispatcher with failing tag_add
\* Offsets at which tag_add can raise: the first character of the pane and the first
\* digit of an error message that follows one character.
FailOffsets == {0, 11}

TclStartTexts == {<<>>, <<"1">>}

\* The dispatcher alone, on a pane whose tag_add raises at some offsets.
InitTclError ==
    /\ client = TRUE
    /\ current_model_id = DefaultModelId
    /\ tcl_error_at \in SUBSET FailOffsets
    /\ prompt = TRUE
    /\ stream_var = TRUE
    /\ generation_active = TRUE
    /\ stop_flag \in BOOLEAN
    /\ generate_btn = "disabled"
    /\ stop_btn = "normal"
    /\ status_var = "generating"
    /\ response_text \in TclStartTexts
    /\ spans = highlight_syntax(response_text, {})
    /\ response_queue \in UNION {[1..k -> Events] : k \in 0..MaxQueue}
    /\ threads = [w \in Workers |-> IdleThread]
    /\ in_tick = FALSE
    /\ after_scheduled = TRUE
    /\ enqueued = response_queue
    /\ applied = <<>>
    /\ last = [op |-> "init", arg |-> <<>>, before |-> response_text]
    /\ cleared = FALSE

SpecTclError == InitTclError /\ [][NextDispatch]_vars

\* ------------------------------------------- dispatcher, failing handler
\* What worker() can put: the events above and ("set", None), the non-streaming
\* put of line 1013 when message["content"] of line 1012 is None.
PollEvents == Events \cup {<<"set", None>>}

\* The dispatcher alone, its timer running, fed events that include a None text.
InitPoll ==
    /\ client = TRUE
    /\ current_model_id = DefaultModelId
    /\ tcl_error_at = {}
    /\ prompt = TRUE
    /\ stream_var = FALSE
    /\ generation_active = TRUE
    /\ stop_flag \in BOOLEAN
    /\ generate_btn = "disabled"
    /\ stop_btn = "normal"
    /\ status_var = "generating"
    /\ response_text \in StartTexts
    /\ spans = highlight_syntax(response_text, {})
    /\ response_queue \in UNION {[1..k -> PollEvents] : k \in 0..MaxQueue}
    /\ threads = [w \in Workers |-> IdleThread]
    /\ in_tick = FALSE
    /\ after_scheduled = TRUE
    /\ enqueued = response_queue
    /\ applied = <<>>
    /\ last = [op |-> "init", arg |-> <<>>, before |-> response_text]
    /\ cleared = FALSE

SpecPoll == InitPoll /\ [][NextDispatch]_vars /\ Fairness

\* --------------------------------------------------------- detector alone
\* Openings of a buffer: no marker, markers of one group, markers of two groups.
DetectHeads ==
    {<<>>, <<"x">>, <<"d", "e", "f", " ">>, <<"D", "E", "F", " ">>,
     <<"s", "u", "d", "o", " ">>, <<"s", "u", "d", "o", " ", "d", "e", "f", " ">>,
     <<"#", "i", "n", "c", "l", "u", "d", "e">>,
     <<"#", "i", "n", "c", "l", "u", "d", "e", " ", "s", "u", "d", "o", " ">>,
     <<"l", "e", "t", " ">>, <<"l", "e", "t", " ", "#", "i", "n", "c", "l", "u", "d", "e">>,
     <<"{">>, <<" ", "{">>, <<"{", "l", "e", "t", " ">>, <<"{", "<", "h", "t", "m", "l">>,
     <<"<", "h", "t", "m", "l">>, <<"<", "h", "t", "m", "l", "{">>}

\* What a buffer can hold beyond its first PrefixLen characters.
DetectTails == {<<>>, <<"{">>, <<"d", "e", "f", " ">>, <<"<", "h", "t", "m", "l">>}

\* head followed by blanks up to PrefixLen characters.
Pad(head) == head \o [i \in 1..(PrefixLen - Len(head)) |-> " "]

DetectTexts == DetectHeads \cup {Pad(h) \o t : h \in DetectHeads, t \in DetectTails}

InitDetect ==
    /\ client = FALSE
    /\ current_model_id = DefaultModelId
    /\ tcl_error_at = {}
    /\ prompt = FALSE
    /\ stream_var = TRUE
    /\ generation_active = FALSE
    /\ stop_flag = FALSE
    /\ generate_btn = "disabled"
    /\ stop_btn = "disabled"
    /\ status_var = "enter_key"
    /\ response_text \in DetectTexts
    /\ spans = {}
    /\ response_queue = <<>>
    /\ threads = [w \in Workers |-> IdleThread]
    /\ in_tick = FALSE
    /\ after_scheduled = TRUE
    /\ enqueued = <<>>
    /\ applied = <<>>
    /\ last = [op |-> "init", arg |-> <<>>, before |-> response_text]
    /\ cleared = FALSE

\* lexer = self._detect_lexer(text) of a highlight pass (line 131), reached on a
\* non-blank text (lines 123-125); last.arg keeps the lexer returned.
detect ==
    /\ ~in_tick
    /\ LET text == response_text \o <<NL>> IN
        /\ Strip(text, Whitespace) # <<>>
        /\ last' = LastOp("detect", _detect_lexer(text))
    /\ UNCHANGED <<pres, response_queue, threads, in_tick, after_scheduled, enqueued, applied, cleared>>

NextDetect == detect

SpecDetect == InitDetect /\ [][NextDetect]_vars

\* ------------------------------------------------------------------ claims
LiveWorkers == {w \in Workers : Live(threads[w])}

\* The events a thread has put, in order.
EventsOf(sent) == [i \in DOMAIN sent |-> sent[i].ev]

Terminal(ev) == ev[1] \in {"done", "error"}

RECURSIVE ConcatPayloads(_)
ConcatPayloads(evs) ==
    IF evs = <<>> THEN <<>> ELSE Head(evs)[2] \o ConcatPayloads(Tail(evs))

\* One ("append", text) per chunk whose delta text is non-empty, in chunk order.
RECURSIVE AppendsOf(_)
AppendsOf(chunks) ==
    IF chunks = <<>> THEN <<>>
    ELSE (IF Head(chunks).has /\ Head(chunks).content # <<>>
          THEN <<<<"append", Head(chunks).content>>>> ELSE <<>>)
         \o AppendsOf(Tail(chunks))

\* C1: in every reachable state at most one generation thread exists that can
\* still put an event on the queue.
C1_AtMostOneLiveWorker == Cardinality(LiveWorkers) <= 1

\* C1 witness: a generate_code call was made, and rejected, while the session's
\* thread was still running.
C1_Witness ==
    /\ last.op = "generate_rejected"
    /\ Cardinality(LiveWorkers) = 1
    /\ generation_active

\* C2 (as claimed): no ("append", ...) event is put while the stop flag is set.
C2_NoAppendAfterStop ==
    \A w \in Workers : \A i \in DOMAIN threads[w].sent :
        threads[w].sent[i].ev[1] = "append" => ~threads[w].sent[i].stop

\* C3: a thread puts at most one terminal event (done or error, never both),
\* puts nothing after it, and has put one when it ends.
C3_OneTerminalEvent ==
    \A w \in Workers :
        LET s == threads[w].sent IN
            /\ \A i \in DOMAIN s : Terminal(s[i].ev) => i = Len(s)
            /\ threads[w].pc = "finished" => (s # <<>> /\ Terminal(s[Len(s)].ev))
            /\ (s # <<>> /\ Terminal(s[Len(s)].ev)) => threads[w].pc = "finished"

\* C3 witness: a streaming thread that put an append and then failed has ended
\* with error as its only terminal event.
C3_Witness ==
    \E w \in Workers :
        LET s == threads[w].sent IN
            /\ threads[w].pc = "finished"
            /\ Len(s) = 2
            /\ s[1].ev[1] = "append"
            /\ s[2].ev[1] = "error"

\* C4: while a session has had only appends handled (and no clear_all), the buffer
\* is the concatenation of their texts in order; once the queue is drained it is
\* the concatenation of every text the session has put.
C4_AppendsConcatenate ==
    /\ (~cleared /\ \A i \in DOMAIN applied : applied[i][1] \in {"append", "done"})
            => response_text = ConcatPayloads(applied)
    /\ (~cleared /\ response_queue = <<>>
            /\ \A i \in DOMAIN enqueued : enqueued[i][1] \in {"append", "done"})
            => response_text = ConcatPayloads(enqueued)

\* C4 witness: two appends with different texts were put and drained.
C4_Witness ==
    /\ ~cleared
    /\ response_queue = <<>>
    /\ ~in_tick
    /\ Len(enqueued) = 2
    /\ enqueued[1][1] = "append"
    /\ enqueued[2][1] = "append"
    /\ enqueued[1][2] # enqueued[2][2]
    /\ response_text = enqueued[1][2] \o enqueued[2][2]

\* C5: after a ("set", t) event is handled the buffer is exactly t.
C5_ReplaceOverwrites == last.op = "set" => response_text = last.arg

\* C5 witness: a set was handled on a buffer that held other text.
C5_Witness ==
    /\ last.op = "set"
    /\ last.before # <<>>
    /\ last.arg # <<>>
    /\ response_text = last.arg

\* C6: the events handled so far, followed by the events still queued, are exactly
\* the events put, in the order they were put.
C6_Fifo == enqueued = applied \o response_queue

\* C6 witness: two different events were handled in order while a third waits.
C6_Witness ==
    /\ Len(applied) >= 2
    /\ applied[1] # applied[2]
    /\ response_queue # <<>>

\* C7: a generate_code call made while a session is active (whichever early return
\* it takes) changes nothing: flags, buffer, spans, queue, buttons, status and the
\* running thread are as before, and no thread is started.
C7_RejectedStartChangesNothing ==
    [][(/\ generation_active
        /\ last' # last
        /\ last'.op \in {"generate_rejected", "generate_empty_prompt", "generate_no_client"})
        => UNCHANGED <<client, current_model_id, tcl_error_at, prompt, stream_var, generation_active, stop_flag,
                       generate_btn, stop_btn, status_var, response_text, spans, response_queue,
                       threads, in_tick, after_scheduled, enqueued, applied, cleared>>]_vars

\* C7 witness: a call was rejected with a cancel request pending, text in the
\* buffer, and the thread still running.
C7_Witness ==
    /\ last.op = "generate_rejected"
    /\ generation_active
    /\ stop_flag
    /\ response_text # <<>>
    /\ Cardinality(LiveWorkers) = 1

\* C8: a streaming thread that reached end-of-stream has put one append per chunk
\* with non-empty delta text, in chunk order, then done; a non-streaming thread
\* whose call returned puts set then done.
C8_EventsOfSuccess ==
    \A w \in Workers :
        LET t == threads[w] IN
            /\ (t.pc = "finished" /\ t.exit = "exhausted")
                => EventsOf(t.sent) = AppendsOf(t.chunks) \o <<<<"done", <<>>>>>>
            /\ (t.pc = "finished" /\ t.exit = "returned")
                => EventsOf(t.sent) = <<<<"set", t.chunk.content>>, <<"done", <<>>>>>>

\* C8 witness: a stream of a text chunk and an empty chunk ran to its end.
C8_Witness ==
    \E w \in Workers :
        LET t == threads[w] IN
            /\ t.pc = "finished"
            /\ t.exit = "exhausted"
            /\ Len(t.chunks) = 2
            /\ t.chunks[1].content # <<>>
            /\ t.chunks[2].content = <<>>
            /\ Len(t.sent) = 2

\* C9: a thread whose remote call raised before any chunk puts exactly one error
\* event after exactly one call, and handling an error leaves no session active.
C9_ErrorBeforeChunks ==
    /\ \A w \in Workers :
        LET t == threads[w] IN
            (t.pc = "finished" /\ t.exit = "raised" /\ t.chunks = <<>>)
                => (EventsOf(t.sent) = <<<<"error", t.exc.msg>>>> /\ t.calls = 1)
    /\ last.op = "error" => ~generation_active

\* C9 witness: the call raised before any chunk and the error has been handled.
C9_Witness ==
    /\ last.op = "error"
    /\ applied = <<<<"error", last.arg>>>>
    /\ \E w \in Workers :
        /\ threads[w].pc = "finished"
        /\ threads[w].exit = "raised"
        /\ threads[w].chunks = <<>>

\* C10 (as claimed): no ("error", ...) event is put while the stop flag is set.
C10_NoErrorAfterStop ==
    \A w \in Workers : \A i \in DOMAIN threads[w].sent :
        threads[w].sent[i].ev[1] = "error" => ~threads[w].sent[i].stop

C12_ErrorAppendsBlock ==
    last.op = "error" =>
        /\ response_text = last.before \o ErrorBlock(last.arg)
        /\ ~generation_active
        /\ ~stop_flag
        /\ generate_btn = "normal"
        /\ stop_btn = "disabled"

\* C12 witness: an error was handled on a pane that already held streamed text.
C12_Witness ==
    /\ last.op = "error"
    /\ last.before # <<>>
    /\ last.arg # <<>>
    /\ Len(response_text) > Len(last.before)

\* C13: the step that handles a done event leaves the buffer and the spans as they
\* are and sets generation_active and the stop flag to false, generate enabled, stop
\* disabled; client, model, prompt, checkbox and threads are left alone too.
C13_DoneKeepsBuffer ==
    [][(applied' = Append(applied, <<"done", <<>>>>))
        => (/\ UNCHANGED <<response_text, spans>>
            /\ ~generation_active'
            /\ ~stop_flag'
            /\ generate_btn' = "normal"
            /\ stop_btn' = "disabled"
            /\ UNCHANGED <<client, current_model_id, tcl_error_at, prompt, stream_var, threads, enqueued,
                           cleared>>)]_vars

\* C13 witness: done was handled on a pane holding text with spans on it.
C13_Witness ==
    /\ last.op = "done"
    /\ response_text # <<>>
    /\ spans # {}
    /\ response_text = last.before
    /\ ~generation_active

\* C14 (as claimed): a stop_generation call made after the session's thread has put
\* its terminal event, handled or not, changes neither the stop flag nor any other
\* session state.
C14_StopAfterTerminalEvent ==
    [][(/\ last' # last
        /\ last'.op = "stop"
        /\ LiveWorkers = {}
        /\ \E w \in Workers : threads[w].pc = "finished")
        => UNCHANGED <<stop_flag, status_var, generation_active, generate_btn, stop_btn,
                       response_text, spans, response_queue, threads>>]_vars

\* A step of a running generation thread.
WorkerStep == \E w \in Workers : Live(threads[w]) /\ threads'[w] # threads[w]

\* C15: a step of the generation thread changes nothing of the presentation state
\* (buffer, spans, generation_active, stop flag, buttons, status); the only shared
\* thing it changes is the queue, by putting at most one event at its end.
C15_WorkerOnlyPuts ==
    [][WorkerStep
        => (/\ UNCHANGED <<response_text, spans, generation_active, stop_flag, generate_btn,
                           stop_btn, status_var, client, current_model_id, in_tick, after_scheduled>>
            /\ \/ response_queue' = response_queue
               \/ /\ Len(response_queue') = Len(response_queue) + 1
                  /\ SubSeq(response_queue', 1, Len(response_queue)) = response_queue)]_vars

\* C15 witness: the thread has put two appends and is still running; nothing has
\* been handled yet and the pane is as generate_code left it.
C15_Witness ==
    /\ \E w \in Workers : Live(threads[w]) /\ Len(threads[w].sent) = 2
    /\ Len(response_queue) = 2
    /\ applied = <<>>
    /\ response_text = <<>>
    /\ last.op = "generate_accepted"

\* C16 (as claimed): the model id the remote call is made with is the one that was
\* selected when generate_code accepted the request.
C16_RequestImmutable ==
    \A w \in Workers :
        threads[w].calls > 0 => threads[w].model = threads[w].accepted_model

\* C17: only a streaming thread holding a chunk leaves by the flag test; having read
\* the flag true it puts nothing for that chunk and then exactly one done, so
\* its events are the appends of the chunks before, then done; once a done has been
\* handled the session is idle and the stop flag false.
C17_CancelAtChunkBoundary ==
    /\ \A w \in Workers :
        LET t == threads[w]
            before == SubSeq(t.chunks, 1, Len(t.chunks) - 1)
        IN t.exit = "break" =>
            /\ t.stream
            /\ t.chunks # <<>>
            /\ t.pc \in {"put_done", "finished"}
            /\ t.pc = "put_done" => EventsOf(t.sent) = AppendsOf(before)
            /\ t.pc = "finished" => EventsOf(t.sent) = AppendsOf(before) \o <<<<"done", <<>>>>>>
    /\ last.op = "done" => (~generation_active /\ ~stop_flag
                             /\ generate_btn = "normal" /\ stop_btn = "disabled")

\* C17 witness: the flag was read true on the second chunk, which carried text; the
\* thread put the first chunk's append and done, and the done has been handled.
C17_Witness ==
    /\ last.op = "done"
    /\ ~generation_active
    /\ ~stop_flag
    /\ \E w \in Workers :
        LET t == threads[w] IN
            /\ t.pc = "finished"
            /\ t.exit = "break"
            /\ Len(t.chunks) = 2
            /\ t.chunks[2].content # <<>>
            /\ Len(t.sent) = 2
            /\ t.sent[1].ev[1] = "append"

\* C18: every span lies inside the buffer and no two spans overlap.
C18_SpansInsideNoOverlap ==
    /\ \A sp \in spans : 0 <= sp.start /\ sp.start < sp.end /\ sp.end <= Len(response_text)
    /\ \A sp \in spans : \A sq \in spans :
            sp # sq => (sp.end <= sq.start \/ sq.end <= sp.start)

\* C18 witness: two spans are on the pane, one on streamed text and one in the
\* error block that followed it.
C18_Witness ==
    /\ last.op = "error"
    /\ Cardinality(spans) >= 2
    /\ \E sp \in spans : sp.end = Len(response_text)

\* The styled tokens of a buffer at the places where their text is: the buffer is
\* scanned as it stands, offsets counted from its first character.
TrueSpans(buffer) ==
    LET text == buffer \o <<NL>> IN
        ApplyTokens(Scan(text, _detect_lexer(text)), 0, {}, Len(buffer))

\* C19 (as claimed): after a pass over a non-blank buffer every span covers the text
\* of its token, also when the buffer begins with newlines.
C19_SpansAtTruePositions ==
    (last.op \in {"append", "set", "error"} /\ Strip(response_text, Whitespace) # <<>>)
        => spans = TrueSpans(response_text)

\* C20: a second highlight pass in succession on an unchanged buffer leaves the spans
\* the first pass left, whatever was on the pane before the first.
C20_HighlightIdempotent == last.op = "highlight_again" => spans = last.arg

\* C20 witness: two passes ran on a buffer whose earlier tags differed from what
\* the passes apply.
C20_Witness ==
    /\ last.op = "highlight_again"
    /\ spans # {}
    /\ spans = last.arg
    /\ Len(response_text) >= 3

\* text[:300].lower() of the text a pass reads from a pane holding buffer.
FoldedPrefix(buffer) ==
    LET text == buffer \o <<NL>> IN Lower(SubSeq(text, 1, Min(PrefixLen, Len(text))))

NonBlank(buffer) == Strip(buffer \o <<NL>>, Whitespace) # <<>>

\* C21 (as claimed): two buffers whose first 300 characters are equal after
\* case-folding get the same lexer, whatever follows character 300.
C21_DetectByPrefix ==
    last.op = "detect" =>
        \A t \in DetectTexts :
            (NonBlank(t) /\ FoldedPrefix(t) = FoldedPrefix(last.before))
                => _detect_lexer(t \o <<NL>>) = last.arg

HasMarker(first, markers) == \E k \in markers : Contains(first, k)

\* C22 (as claimed, last clause): a buffer containing "def " gets the Python lexer.
C22_DefMeansPython ==
    (last.op = "detect" /\ Contains(last.before, <<"d", "e", "f", " ">>))
        => last.arg = "PythonLexer"

\* C22 (amended): the groups are tested in the order Python, shell, C, JavaScript,
\* leading "{", "<html", on the case-folded first 300 characters (the "{" test on the
\* stripped text); the first group that matches gives the lexer, also when later
\* groups match too; no match gives Python; "def " within the first 300 characters
\* gives Python.
C22_OrderedFirstMatch ==
    last.op = "detect" =>
        LET first == FoldedPrefix(last.before)
            py == HasMarker(first, PythonMarkers)
            sh == HasMarker(first, BashMarkers)
            c == HasMarker(first, CMarkers)
            js == HasMarker(first, JavascriptMarkers)
            json == Head(Strip(last.before \o <<NL>>, Whitespace)) = "{"
            html == Contains(first, HtmlMarker)
        IN  /\ py => last.arg = "PythonLexer"
            /\ (~py /\ sh) => last.arg = "BashLexer"
            /\ (~py /\ ~sh /\ c) => last.arg = "CLexer"
            /\ (~py /\ ~sh /\ ~c /\ js) => last.arg = "JavascriptLexer"
            /\ (~py /\ ~sh /\ ~c /\ ~js /\ json) => last.arg = "JsonLexer"
            /\ (~py /\ ~sh /\ ~c /\ ~js /\ ~json /\ html) => last.arg = "HtmlLexer"
            /\ (~py /\ ~sh /\ ~c /\ ~js /\ ~json /\ ~html) => last.arg = "PythonLexer"
            /\ Contains(first, <<"d", "e", "f", " ">>) => last.arg = "PythonLexer"

\* C22 witness: a buffer with a shell marker before a Python marker, both within
\* the first 300 characters, got the Python lexer.
C22_Witness ==
    /\ last.op = "detect"
    /\ last.arg = "PythonLexer"
    /\ HasMarker(FoldedPrefix(last.before), BashMarkers)
    /\ HasMarker(FoldedPrefix(last.before), PythonMarkers)

\* The range of every styled token, tag_add never raising.
RECURSIVE TokenSpans(_, _, _)
TokenSpans(tokens, idx, size) ==
    IF tokens = <<>> THEN {}
    ELSE LET end == idx + Len(Head(tokens).content)
             tag == _get_tag_for_token(Head(tokens).type)
         IN (IF tag # "None" /\ Min(idx, size) < Min(end, size)
             THEN {[start |-> Min(idx, size), end |-> Min(end, size), tag |-> tag]}
             ELSE {})
            \cup TokenSpans(Tail(tokens), end, size)

\* C23: after a pass in which tag_add raised for some tokens, the spans are the
\* ranges of all styled tokens except exactly those; the handler returned, so once
\* a tick has run every queued event has been handled.
C23_FailedSpanSkipped ==
    /\ (last.op \in {"append", "set", "error"} /\ NonBlank(response_text))
        => LET text == response_text \o <<NL>> IN
            spans = {sp \in TokenSpans(lex(text, _detect_lexer(text)), 0, Len(text)) :
                        sp.start \notin tcl_error_at}
    /\ (~in_tick /\ applied # <<>>) => (response_queue = <<>> /\ applied = enqueued)

\* C23 witness: the pass after an error event could not tag the pane's first
\* character but tagged the digits of the message, and the done event queued
\* behind it was handled.
C23_Witness ==
    /\ tcl_error_at = {0}
    /\ ~in_tick
    /\ Len(applied) = 2
    /\ applied[1][1] = "error"
    /\ last.op = "done"
    /\ response_text[1] = "1"
    /\ Cardinality(spans) = 1
    /\ \A sp \in spans : sp.start = 11

\* The thread slots in use since the current session was accepted.
SessionThreads == {w \in Workers : threads[w].pc # "idle"}

\* C24: an accepted generate_code leaves the buffer empty, and it stays empty until
\* an event is handled; every event put, queued or handled since the acceptance was
\* put by the one thread that acceptance started, so the text of the session is
\* built from its own events only.
C24_SessionOwnEvents ==
    /\ last.op = "generate_accepted" => response_text = <<>>
    /\ Cardinality(SessionThreads) <= 1
    /\ SessionThreads = {} => enqueued = <<>>
    /\ \A w \in SessionThreads :
        /\ enqueued = EventsOf(threads[w].sent)
        /\ Len(applied) <= Len(enqueued)
        /\ applied = SubSeq(enqueued, 1, Len(applied))

\* C24 witness: a session was accepted over the text an earlier one left; its
\* thread has already put an event and the pane is still empty.
C24_Witness ==
    /\ last.op = "generate_accepted"
    /\ last.before # <<>>
    /\ response_text = <<>>
    /\ \E w \in Workers : Live(threads[w]) /\ threads[w].sent # <<>>

\* C25: while generation_active is false the queue is empty and no thread exists
\* that can still put an event.
C25_IdleMeansQuiet ==
    ~generation_active => (response_queue = <<>> /\ LiveWorkers = {})

\* C25 witness: a session that put several events has ended; its terminal event
\* was handled last.
C25_Witness ==
    /\ ~generation_active
    /\ last.op \in {"done", "error"}
    /\ Len(applied) >= 2
    /\ applied = enqueued
    /\ \E w \in Workers : threads[w].pc = "finished"

\* C26: the stop flag is true only inside an active session; it is false when an
\* accepted generate_code starts its thread, and it turns true only in a
\* stop_generation call made while that session is active.
C26_StopStaysInSession ==
    [][/\ stop_flag' => generation_active'
       /\ (last' # last /\ last'.op = "generate_accepted")
            => (~stop_flag' /\ \E w \in Workers : threads'[w].pc = "call")
       /\ (~stop_flag /\ stop_flag')
            => (last'.op = "stop" /\ generation_active /\ UNCHANGED threads)]_vars

\* C26 witness: a new session's thread runs with the flag false, started over the
\* text of an earlier session, and nobody has pressed stop since.
C26_Witness ==
    /\ last.op = "generate_accepted"
    /\ last.before # <<>>
    /\ ~stop_flag
    /\ generation_active
    /\ \E w \in Workers : threads[w].pc = "call"

\* C27: with the thread running on and the dispatcher ticking, every state with
\* generation_active true is followed by a state with generation_active false,
\* generate enabled and stop disabled.
C27_EventuallyIdle ==
    generation_active ~>
        (~generation_active /\ generate_btn = "normal" /\ stop_btn = "disabled")

\* C27 witness: a cancelled session is back to idle: its thread left by the flag
\* test and its done event has been handled.
C27_Witness ==
    /\ ~generation_active
    /\ generate_btn = "normal"
    /\ stop_btn = "disabled"
    /\ status_var = "finished"
    /\ \E w \in Workers : threads[w].pc = "finished" /\ threads[w].exit = "break"

\* C28 (as claimed): stop is enabled exactly while generation_active is true, and
\* generate is disabled whenever it is true.
C28_ButtonsAgree ==
    /\ (stop_btn = "normal") <=> generation_active
    /\ generation_active => generate_btn = "disabled"

\* C29: a clear_all call empties the buffer and leaves generation_active, the stop
\* flag, the buttons, the queue and the threads as they are; every append handled
\* afterwards extends the buffer as it then is, so after a clear the buffer holds
\* the text of the events handled since.
C29_ClearKeepsSession ==
    [][/\ (last' # last /\ last'.op = "clear")
            => (/\ response_text' = <<>>
                /\ spans' = {}
                /\ UNCHANGED <<generation_active, stop_flag, generate_btn, stop_btn,
                               response_queue, threads, enqueued, applied, in_tick, after_scheduled>>)
       /\ \A t \in ChunkTexts :
            (applied' = Append(applied, <<"append", t>>))
                => response_text' = response_text \o t]_vars

\* C29 witness: the pane was cleared in a running session after one append had been
\* handled; the next append was handled since, and the buffer holds its text only.
C29_Witness ==
    /\ cleared
    /\ last.op = "append"
    /\ last.before = <<>>
    /\ Len(applied) = 2
    /\ applied[1][1] = "append"
    /\ response_text = last.arg
    /\ generation_active

\* C30: a non-streaming thread never leaves by the flag test; once its call has
\* returned it puts set with the text and then done, whatever the stop flag is.
C30_NonStreamIgnoresStop ==
    \A w \in Workers :
        LET t == threads[w] IN
            (t.pc # "idle" /\ ~t.stream) =>
                /\ t.exit # "break"
                /\ t.chunks = <<>>
                /\ t.exit = "returned" =>
                    \/ t.pc = "put_set" /\ t.sent = <<>>
                    \/ t.pc = "put_done"
                        /\ EventsOf(t.sent) = <<<<"set", t.chunk.content>>>>
                    \/ t.pc = "finished"
                        /\ EventsOf(t.sent) = <<<<"set", t.chunk.content>>, <<"done", <<>>>>>>

\* C30 witness: stop was pressed before the non-streaming thread put anything; the
\* thread put set and done all the same, and the pane shows the full text.
C30_Witness ==
    /\ last.op = "done"
    /\ response_text = <<"a", "b">>
    /\ \E w \in Workers :
        LET t == threads[w] IN
            /\ t.pc = "finished"
            /\ ~t.stream
            /\ Len(t.sent) = 2
            /\ t.sent[1].stop
            /\ t.sent[1].ev = <<"set", <<"a", "b">>>>

\* C31: the dispatcher never stops polling: every tick, whatever events it handles
\* and whether or not a handler fails, ends with the next tick scheduled, so a
\* running tick or a waiting event always leads to a state where the next tick
\* is scheduled and the queue has been drained.
C31_NeverStopsPolling ==
    (in_tick \/ response_queue # <<>>) ~> (after_scheduled /\ response_queue = <<>>)

====
